---- MODULE Spec2Model ----
(***************************************************************************)
(* A model of fuzzySearcher.py: the FuzzySearcher class (letter-frequency  *)
(* index, candidate generation, exact and tolerance filters, search).      *)
(*                                                                         *)
(* A word is a sequence of one-character strings.  A Python dict is a      *)
(* function whose DOMAIN is its set of keys; where the code iterates over  *)
(* a dict (Counter.items(), the candidates dict) the insertion order is    *)
(* kept beside it as a sequence.                                           *)
(***************************************************************************)
EXTENDS Integers, Sequences, FiniteSets, TLC

(* ------------------------------ bounds --------------------------------- *)

\* longest vocabulary word of the engine specification
MaxWordLen == 2

\* longest candidate word handed to the static filters
MaxCandLen == 3

\* longest query string
MaxQueryLen == 2

\* largest tolerance a caller configures or passes to lessFuzzyFilter
MaxTolerance == 1

\* settings['tolerance'] as set by the constructor
DefaultTolerance == 5

Alphabet == {"a", "b"}

StringsUpTo(n) == UNION {[1..k -> Alphabet] : k \in 0..n}

Words == StringsUpTo(MaxWordLen)

CandWords == StringsUpTo(MaxCandLen)

Queries == StringsUpTo(MaxQueryLen)

Tolerances == 0..MaxTolerance

\* vocabularies: every list of at most two words, and three lists of three
\* in which a word is repeated around another
Vocabularies ==
    {<<>>} \cup {<<w>> : w \in Words} \cup {<<v, w>> : v, w \in Words}
           \cup { << <<"a", "b">>, <<"a", "a">>, <<"a", "b">> >>,
                  << <<"a">>, <<"b", "a">>, <<"a">> >>,
                  << <<"b">>, <<>>, <<"b">> >> }

\* the lists of test_.py
Three == <<"t", "h", "r", "e", "e">>
There == <<"t", "h", "e", "r", "e">>
Theme == <<"t", "h", "e", "m", "e">>
Her == <<"h", "e", "r">>
Thr == <<"t", "h", "r">>
TestFilterCandidates == <<There, Three, Theme>>
TestLessFuzzyCandidates == <<Three, There, Theme, Her>>

\* candidate lists: every list of at most two words, and the lists of test_.py
CandidateLists ==
    {<<>>} \cup {<<w>> : w \in CandWords} \cup {<<v, w>> : v, w \in CandWords}
           \cup {TestFilterCandidates, TestLessFuzzyCandidates}

FilterQueries == Queries \cup {Thr}

(* ------------------------------ state ---------------------------------- *)

VARIABLES
    words,                     \* the list given to __init__
    allWords,                  \* self.allWords
    highestLetterInWordCount,  \* self.highestLetterInWordCount
    settings,                  \* self.settings
    lastOp,                    \* the method of the engine called last
    searchLetters,             \* its argument
    candidates,                \* the candidates dict of its getAllSearchCandidates
    result,                    \* the list it returned
    outcome,                   \* "returned" or "IndexError"
    fCandidates,               \* static filter call: candidates argument
    fSearchLetters,            \* static filter call: searchLetters argument
    fTolerance,                \* static filter call: tolerance argument
    fOp,                       \* static filter call: which filter ran
    fOutcome,                  \* "returned" or "IndexError"
    fResult,                   \* the list returned
    fPassing,                  \* lessFuzzyFilter's passingCandidates dict
    fLookups                   \* the indices at which searchLetters was read

engineVars == <<words, allWords, highestLetterInWordCount, settings,
                lastOp, searchLetters, candidates, result, outcome>>

filterVars == <<fCandidates, fSearchLetters, fTolerance, fOp, fOutcome,
                fResult, fPassing, fLookups>>

vars == <<engineVars, filterVars>>

(* ---------------------------- containers ------------------------------- *)

Range(s) == {s[i] : i \in 1..Len(s)}

\* dict(): no keys
EmptyDict == <<>>

\* number of occurrences of letter in word: Counter(word)[letter]
Count(word, letter) == Cardinality({i \in 1..Len(word) : word[i] = letter})

\* the keys of Counter(word), in the order items() yields them (first occurrence)
RECURSIVE CounterKeysFrom(_, _, _)
CounterKeysFrom(word, i, acc) ==
    IF i > Len(word) THEN acc
    ELSE CounterKeysFrom(word, i + 1,
            IF word[i] \in Range(acc) THEN acc ELSE Append(acc, word[i]))

CounterKeys(word) == CounterKeysFrom(word, 1, <<>>)

\* f"{k}-{v}"
LetterToWordKey(k, v) == <<k, "-", v>>

\* defaultdict(int).__getitem__: the table after reading key (a missing key is inserted as 0)
DefaultGet(h, key) == IF key \in DOMAIN h THEN h ELSE h @@ (key :> 0)

(* ------------------------- __init__ (lines 43-53) ---------------------- *)

\* list.append mutated: the word is put in front of the bucket
BucketPrepend(bucket, word) == <<word>> \o bucket

\* self.allWords[...].append(word)
BucketAppend(bucket, word) == Append(bucket, word)

\* one iteration of the inner loop: lines 51-53 for the item (k, v) of Counter(word)
IndexLetter(idx, word, k, v) ==
    LET key == LetterToWordKey(k, v)
        aw  == idx.allWords
        h   == DefaultGet(idx.highest, k)
    IN  [allWords |->
            IF key \in DOMAIN aw
            THEN [aw EXCEPT ![key] = BucketAppend(@, word)]
            ELSE aw @@ (key :> BucketAppend(<<>>, word)),
         highest |-> IF v > h[k] THEN [h EXCEPT ![k] = v] ELSE h]

\* the inner loop over Counter(word).items(), from item j on
RECURSIVE IndexWordFrom(_, _, _, _)
IndexWordFrom(idx, word, keys, j) ==
    IF j > Len(keys) THEN idx
    ELSE IndexWordFrom(IndexLetter(idx, word, keys[j], Count(word, keys[j])),
                       word, keys, j + 1)

\* the outer loop over words, from word i on
RECURSIVE IndexWordsFrom(_, _, _)
IndexWordsFrom(idx, ws, i) ==
    IF i > Len(ws) THEN idx
    ELSE IndexWordsFrom(IndexWordFrom(idx, ws[i], CounterKeys(ws[i]), 1), ws, i + 1)

\* the tables __init__ leaves for the list ws
BuildIndex(ws) ==
    IndexWordsFrom([allWords |-> EmptyDict, highest |-> EmptyDict], ws, 1)

\* the settings dict __init__ creates
InitialSettings == [tolerance |-> DefaultTolerance]

(* ------------------ getAllSearchCandidates (lines 83-92) --------------- *)

\* candidates = defaultdict(int): insertion order and the counts
NoCandidates == [order |-> <<>>, count |-> EmptyDict]

\* candidates[word] += 1
AddCredit(c, word) ==
    IF word \in DOMAIN c.count
    THEN [c EXCEPT !.count[word] = @ + 1]
    ELSE [order |-> Append(c.order, word), count |-> c.count @@ (word :> 1)]

\* lines 90-91: the loop over one bucket, from entry i on
RECURSIVE ScanBucket(_, _, _)
ScanBucket(c, bucket, i) ==
    IF i > Len(bucket) THEN c
    ELSE ScanBucket(AddCredit(c, bucket[i]), bucket, i + 1)

\* lines 87-91: for amount in range(amount, hi + 1)
RECURSIVE ScanAmounts(_, _, _, _, _)
ScanAmounts(c, aw, key, amount, hi) ==
    IF amount > hi THEN c
    ELSE LET letterToWordKey == LetterToWordKey(key, amount)
         IN  ScanAmounts(IF letterToWordKey \in DOMAIN aw
                         THEN ScanBucket(c, aw[letterToWordKey], 1)
                         ELSE c,
                         aw, key, amount + 1, hi)

\* lines 86-91: the loop over searchLetterCounter.items(), from item j on;
\* st holds the candidates dict and the highest-count table
RECURSIVE ScanLetters(_, _, _, _, _)
ScanLetters(st, aw, q, keys, j) ==
    IF j > Len(keys) THEN st
    ELSE LET key   == keys[j]
             value == Count(q, key)
             h     == DefaultGet(st.highest, key)  \* line 87 reads the table
         IN  ScanLetters([candidates |-> ScanAmounts(st.candidates, aw, key, value, h[key]),
                          highest |-> h],
                         aw, q, keys, j + 1)

\* line 92: the words of the dict, in insertion order, whose count is n
Admitted(c, n) == SelectSeq(c.order, LAMBDA w : c.count[w] = n)

\* the whole method on tables (aw, h): the candidates dict, the table afterwards
\* and the list returned
GetAllSearchCandidates(aw, h, q) ==
    LET keys == CounterKeys(q)
        st   == ScanLetters([candidates |-> NoCandidates, highest |-> h], aw, q, keys, 1)
    IN  [candidates |-> st.candidates,
         highest |-> st.highest,
         result |-> Admitted(st.candidates, Len(keys))]

(* --------------------------- filter (lines 124-133) -------------------- *)

\* searchLetters[uptoInSearchLetters] raises IndexError at or past the end
InRange(upto, q) == 0 <= upto /\ upto < Len(q)

\* the scan mutated: a letter that does not match restarts the query
RECURSIVE ScanFilterRestart(_, _, _, _, _)
ScanFilterRestart(candidate, q, i, upto, lookups) ==
    IF i > Len(candidate) THEN [status |-> "fail", lookups |-> lookups]
    ELSE IF ~InRange(upto, q)
         THEN [status |-> "IndexError", lookups |-> lookups \cup {upto}]
    ELSE IF candidate[i] = q[upto + 1]
         THEN IF upto + 1 = Len(q)
              THEN [status |-> "pass", lookups |-> lookups \cup {upto}]
              ELSE ScanFilterRestart(candidate, q, i + 1, upto + 1, lookups \cup {upto})
    ELSE ScanFilterRestart(candidate, q, i + 1, 0, lookups \cup {upto})

\* lines 127-132: the loop over the letters of one candidate, from letter i on,
\* with uptoInSearchLetters = upto (0-based, as in the code)
RECURSIVE ScanFilter(_, _, _, _, _)
ScanFilter(candidate, q, i, upto, lookups) ==
    IF i > Len(candidate) THEN [status |-> "fail", lookups |-> lookups]
    ELSE IF ~InRange(upto, q)
         THEN [status |-> "IndexError", lookups |-> lookups \cup {upto}]
    ELSE IF candidate[i] = q[upto + 1]
         THEN IF upto + 1 = Len(q)
              THEN [status |-> "pass", lookups |-> lookups \cup {upto}]
              ELSE ScanFilter(candidate, q, i + 1, upto + 1, lookups \cup {upto})
    ELSE ScanFilter(candidate, q, i + 1, upto, lookups \cup {upto})

\* lines 125-132: the loop over the candidates, from candidate n on
RECURSIVE FilterFrom(_, _, _, _)
FilterFrom(cands, q, n, acc) ==
    IF n > Len(cands) THEN acc
    ELSE LET r == ScanFilter(cands[n], q, 1, 0, acc.lookups)
         IN  IF r.status = "IndexError"
             THEN [acc EXCEPT !.outcome = "IndexError", !.lookups = r.lookups,
                              !.result = <<>>]
             ELSE FilterFrom(cands, q, n + 1,
                     [acc EXCEPT !.lookups = r.lookups,
                                 !.result = IF r.status = "pass"
                                            THEN Append(@, cands[n]) ELSE @])

\* the whole method: the list returned, or IndexError
Filter(cands, q) ==
    FilterFrom(cands, q, 1, [outcome |-> "returned", result |-> <<>>, lookups |-> {}])

(* ---------------------- lessFuzzyFilter (lines 167-188) ---------------- *)

\* line 182 mutated: the run is compared before it is counted
ExceedsToleranceLate(distanceWithNoMatch, tolerance) == distanceWithNoMatch - 1 > tolerance

\* line 182: if distanceWithNoMatch > tolerance
ExceedsTolerance(distanceWithNoMatch, tolerance) == distanceWithNoMatch > tolerance

Max(x, y) == IF x >= y THEN x ELSE y

\* lines 172-183: the loop over the letters of one candidate, from letter i on;
\* s holds uptoInSearchLetters, distanceWithNoMatch, greatestDistanceWithNoMatch
RECURSIVE ScanLessFuzzy(_, _, _, _, _, _)
ScanLessFuzzy(candidate, q, tolerance, i, s, lookups) ==
    IF i > Len(candidate) THEN [status |-> "fail", score |-> s.greatest, lookups |-> lookups]
    ELSE IF ~InRange(s.upto, q)
         THEN [status |-> "IndexError", score |-> s.greatest,
               lookups |-> lookups \cup {s.upto}]
    ELSE IF candidate[i] = q[s.upto + 1]
         THEN IF s.upto + 1 = Len(q)
              THEN [status |-> "pass", score |-> s.greatest,
                    lookups |-> lookups \cup {s.upto}]
              ELSE ScanLessFuzzy(candidate, q, tolerance, i + 1,
                                 [s EXCEPT !.distance = 0, !.upto = @ + 1],
                                 lookups \cup {s.upto})
    ELSE LET d == s.distance + 1
             g == Max(s.greatest, d)
         IN  IF ExceedsTolerance(d, tolerance)
             THEN [status |-> "fail", score |-> g, lookups |-> lookups \cup {s.upto}]
             ELSE ScanLessFuzzy(candidate, q, tolerance, i + 1,
                                [s EXCEPT !.distance = d, !.greatest = g],
                                lookups \cup {s.upto})

\* passingCandidates = defaultdict(list): the keys in insertion order and the lists
NoPassing == [keys |-> <<>>, lists |-> EmptyDict]

\* passingCandidates[score].append(candidate)
AddPassing(p, score, candidate) ==
    IF score \in DOMAIN p.lists
    THEN [p EXCEPT !.lists[score] = Append(@, candidate)]
    ELSE [keys |-> Append(p.keys, score), lists |-> p.lists @@ (score :> <<candidate>>)]

\* lines 168-183: the loop over the candidates, from candidate n on
RECURSIVE LessFuzzyFrom(_, _, _, _, _)
LessFuzzyFrom(cands, q, tolerance, n, acc) ==
    IF n > Len(cands) THEN acc
    ELSE LET r == ScanLessFuzzy(cands[n], q, tolerance, 1,
                                [upto |-> 0, distance |-> 0, greatest |-> 0], acc.lookups)
         IN  IF r.status = "IndexError"
             THEN [acc EXCEPT !.outcome = "IndexError", !.lookups = r.lookups]
             ELSE LessFuzzyFrom(cands, q, tolerance, n + 1,
                     [acc EXCEPT !.lookups = r.lookups,
                                 !.passing = IF r.status = "pass"
                                             THEN AddPassing(@, r.score, cands[n]) ELSE @])

\* sorted() mutated: the keys are left in insertion order
UnsortedKeys(keys) == keys

\* the least element of a non-empty set of integers
Least(S) == CHOOSE x \in S : \A y \in S : x <= y

\* the elements of a finite set of integers in ascending order
RECURSIVE Ascending(_)
Ascending(S) == IF S = {} THEN <<>> ELSE <<Least(S)>> \o Ascending(S \ {Least(S)})

\* line 186: sorted(passingCandidates.keys())
SortedKeys(keys) == Ascending(Range(keys))

\* lines 185-187: results.extend(passingCandidates[key]) for each key, from key j on
RECURSIVE ExtendFrom(_, _, _, _)
ExtendFrom(results, lists, keys, j) ==
    IF j > Len(keys) THEN results
    ELSE ExtendFrom(results \o lists[keys[j]], lists, keys, j + 1)

\* the whole method: the list returned, or IndexError
LessFuzzyFilter(cands, q, tolerance) ==
    LET acc == LessFuzzyFrom(cands, q, tolerance, 1,
                   [outcome |-> "returned", passing |-> NoPassing, lookups |-> {}])
    IN  [outcome |-> acc.outcome,
         passing |-> acc.passing,
         lookups |-> acc.lookups,
         result  |-> IF acc.outcome = "returned"
                     THEN ExtendFrom(<<>>, acc.passing.lists, SortedKeys(acc.passing.keys), 1)
                     ELSE <<>>]

(* --------------------------- search (lines 217-220) -------------------- *)

\* the whole method on tables (aw, h) with settings st
Search(aw, h, st, q) ==
    LET g == GetAllSearchCandidates(aw, h, q)
        f == IF "tolerance" \notin DOMAIN st
             THEN Filter(g.result, q)
             ELSE LessFuzzyFilter(g.result, q, st["tolerance"])
    IN  [candidates |-> g.candidates,
         highest |-> g.highest,
         outcome |-> f.outcome,
         result |-> f.result]

(* ------------------------------ actions -------------------------------- *)

\* the engine FuzzySearcher(ws) as __init__ leaves it, no method called yet
Constructed(ws) ==
    /\ words = ws
    /\ allWords = BuildIndex(ws).allWords
    /\ highestLetterInWordCount = BuildIndex(ws).highest
    /\ settings = InitialSettings
    /\ lastOp = "none"
    /\ searchLetters = <<>>
    /\ candidates = NoCandidates
    /\ result = <<>>
    /\ outcome = "none"

\* no static filter called
NoFilterCall ==
    /\ fCandidates = <<>>
    /\ fSearchLetters = <<>>
    /\ fTolerance = 0
    /\ fOp = "none"
    /\ fOutcome = "none"
    /\ fResult = <<>>
    /\ fPassing = NoPassing
    /\ fLookups = {}

Init == NoFilterCall /\ \E ws \in Vocabularies : Constructed(ws)

\* a call of getAllSearchCandidates(q)
CallGetAllSearchCandidates(q) ==
    LET g == GetAllSearchCandidates(allWords, highestLetterInWordCount, q)
    IN  /\ lastOp' = "getAllSearchCandidates"
        /\ searchLetters' = q
        /\ candidates' = g.candidates
        /\ highestLetterInWordCount' = g.highest
        /\ result' = g.result
        /\ outcome' = "returned"
        /\ UNCHANGED <<words, allWords, settings, filterVars>>

\* search mutated: the candidates dict is kept from the previous call
\* instead of being created anew on line 83
CallSearchStaleCandidates(q) ==
    LET keys  == CounterKeys(q)
        st    == ScanLetters([candidates |-> candidates,
                              highest |-> highestLetterInWordCount],
                             allWords, q, keys, 1)
        cands == Admitted(st.candidates, Len(keys))
        f     == IF "tolerance" \notin DOMAIN settings
                 THEN Filter(cands, q)
                 ELSE LessFuzzyFilter(cands, q, settings["tolerance"])
    IN  /\ lastOp' = "search"
        /\ searchLetters' = q
        /\ candidates' = st.candidates
        /\ highestLetterInWordCount' = st.highest
        /\ result' = f.result
        /\ outcome' = f.outcome
        /\ UNCHANGED <<words, allWords, settings, filterVars>>

\* a call of search(q)
CallSearch(q) ==
    LET r == Search(allWords, highestLetterInWordCount, settings, q)
    IN  /\ lastOp' = "search"
        /\ searchLetters' = q
        /\ candidates' = r.candidates
        /\ highestLetterInWordCount' = r.highest
        /\ result' = r.result
        /\ outcome' = r.outcome
        /\ UNCHANGED <<words, allWords, settings, filterVars>>

\* the caller sets settings['tolerance'] = t
SetTolerance(t) ==
    /\ settings' = [tolerance |-> t]
    /\ UNCHANGED <<words, allWords, highestLetterInWordCount, lastOp, searchLetters,
                   candidates, result, outcome, filterVars>>

\* the caller removes settings['tolerance'], which selects the exact filter
DelTolerance ==
    /\ "tolerance" \in DOMAIN settings
    /\ settings' = EmptyDict
    /\ UNCHANGED <<words, allWords, highestLetterInWordCount, lastOp, searchLetters,
                   candidates, result, outcome, filterVars>>

Next ==
    \/ \E q \in Queries : CallGetAllSearchCandidates(q)
    \/ \E q \in Queries : CallSearch(q)
    \/ \E t \in Tolerances : SetTolerance(t)
    \/ DelTolerance

Spec == Init /\ [][Next]_vars

\* the static filters: the arguments of one call
FilterInit ==
    /\ Constructed(<<>>)
    /\ fCandidates \in CandidateLists
    /\ fSearchLetters \in FilterQueries
    /\ fTolerance \in Tolerances
    /\ fOp = "none"
    /\ fOutcome = "none"
    /\ fResult = <<>>
    /\ fPassing = NoPassing
    /\ fLookups = {}

\* FuzzySearcher.filter(fCandidates, fSearchLetters)
CallFilter ==
    LET r == Filter(fCandidates, fSearchLetters)
    IN  /\ fOp = "none"
        /\ fOp' = "filter"
        /\ fOutcome' = r.outcome
        /\ fResult' = r.result
        /\ fLookups' = r.lookups
        /\ UNCHANGED <<fCandidates, fSearchLetters, fTolerance, fPassing, engineVars>>

\* FuzzySearcher.lessFuzzyFilter(fCandidates, fSearchLetters, fTolerance)
CallLessFuzzyFilter ==
    LET r == LessFuzzyFilter(fCandidates, fSearchLetters, fTolerance)
    IN  /\ fOp = "none"
        /\ fOp' = "lessFuzzyFilter"
        /\ fOutcome' = r.outcome
        /\ fResult' = r.result
        /\ fPassing' = r.passing
        /\ fLookups' = r.lookups
        /\ UNCHANGED <<fCandidates, fSearchLetters, fTolerance, engineVars>>

FilterNext == CallFilter \/ CallLessFuzzyFilter

FilterSpec == FilterInit /\ [][FilterNext]_vars

(* ------------------- what the claims are stated with ------------------- *)

\* the distinct letters of a string
Letters(q) == Range(q)

\* w has at least as many of every letter of q as q has
HasLetterCounts(w, q) == \A L \in Letters(q) : Count(w, L) >= Count(q, L)

\* how often w occurs in a list
Occurrences(list, w) == Cardinality({i \in 1..Len(list) : list[i] = w})

\* the buckets read for letter L of query q: amounts Count(q, L) .. highest count of L
BucketsRead(q, L) ==
    {key \in DOMAIN allWords :
        /\ key[1] = L
        /\ key[3] >= Count(q, L)
        /\ key[3] <= DefaultGet(highestLetterInWordCount, L)[L]}

\* the credits word w gains for letter L of query q
RECURSIVE SumOccurrences(_, _)
SumOccurrences(keys, w) ==
    IF keys = {} THEN 0
    ELSE LET key == CHOOSE k \in keys : TRUE
         IN  Occurrences(allWords[key], w) + SumOccurrences(keys \ {key}, w)

CreditsFor(w, q, L) == SumOccurrences(BucketsRead(q, L), w)

\* the list without the repetitions of its words
RECURSIVE DedupFrom(_, _, _)
DedupFrom(list, i, acc) ==
    IF i > Len(list) THEN acc
    ELSE DedupFrom(list, i + 1,
            IF list[i] \in Range(acc) THEN acc ELSE Append(acc, list[i]))

Dedup(list) == DedupFrom(list, 1, <<>>)

\* q is a subsequence of w: some order-preserving embedding exists
IsSubsequence(q, w) ==
    \E f \in [1..Len(q) -> 1..Len(w)] :
        /\ \A j \in 1..Len(q) : w[f[j]] = q[j]
        /\ \A j \in 1..(Len(q) - 1) : f[j] < f[j + 1]

\* w begins with q
StartsWith(w, q) == Len(w) >= Len(q) /\ SubSeq(w, 1, Len(q)) = q

\* the position in w at which the greedy scan matches the j-th letter of q
\* (0 for j = 0, -1 when the word ends first)
RECURSIVE GreedyPos(_, _, _)
GreedyPos(w, q, j) ==
    IF j = 0 THEN 0
    ELSE LET prev == GreedyPos(w, q, j - 1)
             S    == {p \in 1..Len(w) : p > prev /\ w[p] = q[j]}
         IN  IF prev = -1 \/ S = {} THEN -1 ELSE Least(S)

\* the greedy scan matches the whole of q inside w
GreedyMatches(w, q) == GreedyPos(w, q, Len(q)) # -1

\* the runs of non-matching letters the scan meets before q is completed
Runs(w, q) == {GreedyPos(w, q, j) - GreedyPos(w, q, j - 1) - 1 : j \in 1..Len(q)}

\* the longest of them
LongestRun(w, q) == CHOOSE r \in Runs(w, q) : \A x \in Runs(w, q) : x <= r

\* what the tolerance filter is claimed to let through
Passes(w, q, tolerance) ==
    GreedyMatches(w, q) /\ \A r \in Runs(w, q) : r <= tolerance

(* ------------------------------ claims --------------------------------- *)

\* C1: for a non-empty query, getAllSearchCandidates returns precisely the
\* vocabulary words that have at least as many of every query letter as the
\* query, and no word gains more than one credit per distinct query letter.
C1_CandidatesAreTheFrequencyMatches ==
    (lastOp = "getAllSearchCandidates" /\ searchLetters # <<>>) =>
        /\ Range(result) = {w \in Range(words) : HasLetterCounts(w, searchLetters)}
        /\ \A w \in Range(words) : \A L \in Letters(searchLetters) :
                CreditsFor(w, searchLetters, L) <= 1

\* C2: no call of getAllSearchCandidates or search changes the bucket table
\* allWords or the max-count table highestLetterInWordCount: both keep the
\* keys and values they have after construction.
C2_QueriesLeaveTheIndexUnchanged ==
    [][/\ allWords' = allWords
       /\ highestLetterInWordCount' = highestLetterInWordCount]_vars

\* C3: a word that occurs several times in the vocabulary is admitted by
\* getAllSearchCandidates(Q) and returned by search(Q) exactly when it is for
\* the vocabulary in which it occurs once.
C3_DuplicatesBehaveAsOneOccurrence ==
    [][LET once == BuildIndex(Dedup(words))
       IN  /\ (lastOp' = "getAllSearchCandidates" /\ settings' = settings) =>
                 Range(result') =
                     Range(GetAllSearchCandidates(once.allWords, once.highest,
                                                  searchLetters').result)
           /\ (lastOp' = "search" /\ settings' = settings) =>
                 Range(result') =
                     Range(Search(once.allWords, once.highest, settings,
                                  searchLetters').result)]_vars

\* C4: in filter and in lessFuzzyFilter, for every candidate list and every
\* query (the empty one too), every read of the query is at an index in
\* 0 .. len(query) - 1, so no IndexError occurs.
C4_QueryReadsStayInBounds ==
    /\ \A p \in fLookups : 0 <= p /\ p <= Len(fSearchLetters) - 1
    /\ fOutcome # "IndexError"

\* C5: after construction every vocabulary word W with n occurrences of a
\* letter L is in bucket (L, n) and in no bucket (L, m) with m # n; each
\* bucket holds its words in vocabulary order; the empty word is in no bucket.
C5_BucketsHoldExactCounts ==
    /\ \A i \in 1..Len(words) : \A L \in Letters(words[i]) :
          LET n == Count(words[i], L)
          IN  /\ LetterToWordKey(L, n) \in DOMAIN allWords
              /\ words[i] \in Range(allWords[LetterToWordKey(L, n)])
              /\ \A key \in DOMAIN allWords :
                    (key[1] = L /\ key[3] # n) => words[i] \notin Range(allWords[key])
    /\ \A key \in DOMAIN allWords :
          /\ allWords[key] = SelectSeq(words, LAMBDA w : Count(w, key[1]) = key[3])
          /\ <<>> \notin Range(allWords[key])

\* C5 witness: a vocabulary with a repeated word and a word with a doubled letter
C5_Witness ==
    /\ words = << <<"a", "b">>, <<"a", "a">>, <<"a", "b">> >>
    /\ allWords[LetterToWordKey("a", 1)] = << <<"a", "b">>, <<"a", "b">> >>
    /\ allWords[LetterToWordKey("a", 2)] = << <<"a", "a">> >>

C7_StableAscendingScores ==
    (fOp = "lessFuzzyFilter" /\ fOutcome = "returned") =>
        /\ \A i \in 1..Len(fResult) : \A j \in i..Len(fResult) :
              LongestRun(fResult[i], fSearchLetters) <= LongestRun(fResult[j], fSearchLetters)
        /\ \A w \in Range(fResult) :
              LET sameScore(x) == LongestRun(x, fSearchLetters) = LongestRun(w, fSearchLetters)
                  returned(x)  == x \in Range(fResult)
              IN  SelectSeq(fResult, sameScore)
                    = SelectSeq(SelectSeq(fCandidates, returned), sameScore)

\* C7 witness: two distinct candidates returned in the opposite order
C7_Witness ==
    /\ fOp = "lessFuzzyFilter"
    /\ Len(fCandidates) = 2
    /\ fCandidates[1] # fCandidates[2]
    /\ fResult = <<fCandidates[2], fCandidates[1]>>

\* C8: with tolerance 0 and a non-empty query lessFuzzyFilter returns, in
\* input order, exactly the candidates that begin with the query; each of them
\* is also returned by the exact filter; the candidates of test_.py with query
\* "thr" give exactly ["three"].
C8_ToleranceZeroIsPrefixMatch ==
    (fOp = "lessFuzzyFilter" /\ fTolerance = 0 /\ fSearchLetters # <<>>) =>
        /\ fOutcome = "returned"
        /\ fResult = SelectSeq(fCandidates, LAMBDA w : StartsWith(w, fSearchLetters))
        /\ Range(fResult) \subseteq Range(Filter(fCandidates, fSearchLetters).result)
        /\ (fCandidates = TestLessFuzzyCandidates /\ fSearchLetters = Thr)
              => fResult = <<Three>>

\* C8 witness: the call of test_less_fuzzy_filter
C8_Witness ==
    /\ fOp = "lessFuzzyFilter"
    /\ fTolerance = 0
    /\ fCandidates = TestLessFuzzyCandidates
    /\ fSearchLetters = Thr
    /\ fResult = <<Three>>

\* C9: whatever calls came before, a call of search(Q) returns the list that
\* the first search(Q) returns on a freshly constructed engine with the same
\* vocabulary and the same settings.  (A step that leaves settings unchanged
\* and ends with lastOp = "search" is a call of search or changes nothing.)
C9_SearchIsIdempotent ==
    [][(lastOp' = "search" /\ settings' = settings) =>
          LET fresh == BuildIndex(words)
              first == Search(fresh.allWords, fresh.highest, settings, searchLetters')
          IN  result' = first.result /\ outcome' = first.outcome]_vars

\* C9 witness: a search that finds words on an engine whose max-count table
\* earlier queries have changed, with the settings of the constructor
C9_Witness ==
    /\ lastOp = "search"
    /\ result # <<>>
    /\ highestLetterInWordCount # BuildIndex(words).highest

\* C10: for a non-empty query filter returns, in input order, exactly the
\* candidates of which the query is a subsequence (some order-preserving
\* embedding exists); the candidates of test_.py with query "thr" give
\* "there" and "three" and not "theme".
C10_ExactFilterIsSubsequenceTest ==
    (fOp = "filter" /\ fSearchLetters # <<>>) =>
        /\ fOutcome = "returned"
        /\ fResult = SelectSeq(fCandidates, LAMBDA w : IsSubsequence(fSearchLetters, w))
        /\ (fCandidates = TestFilterCandidates /\ fSearchLetters = Thr)
              => fResult = <<There, Three>>

\* C10 witness: the call of test_filter
C10_Witness ==
    /\ fOp = "filter"
    /\ fCandidates = TestFilterCandidates
    /\ fSearchLetters = Thr
    /\ fResult = <<There, Three>>

====
